---------------------------- MODULE Spec2Model ----------------------------
(***************************************************************************)
(* Model of src/src/components/InventoryTurnoverCalculator.tsx: the React  *)
(* component's state (method, values, turnoverRatio, daysToSell, the two   *)
(* chart datasets), its change handlers, and the effect that recalculates  *)
(* the results after a render in which values or method changed, and the   *)
(* export of the results panel to a PDF document (generatePDF).            *)
(*                                                                         *)
(* Numbers are ECMAScript Numbers.  A Number is modelled as NaN, +/-       *)
(* Infinity, or a finite value  s * (n/d) * H^x  where n/d is a reduced    *)
(* fraction, s the sign (zeros are signed) and H = 10^308 a magnitude      *)
(* unit, so that the range limits of a double (overflow to Infinity above  *)
(* Number.MAX_VALUE = 1.797...e308, underflow to zero) are part of the     *)
(* arithmetic.  The 53-bit rounding of a quotient's mantissa is not        *)
(* modelled: n/d is kept exact.                                            *)
(***************************************************************************)
EXTENDS Integers, Sequences, FiniteSets, TLC

VARIABLES method, values, turnoverRatio, daysToSell, benchmarkData,
          comparisonData, effectPending, lastChange, exports

\* The calculator: inputs, results, the pending effect, the latest change.
calcVars == <<method, values, turnoverRatio, daysToSell, benchmarkData,
              comparisonData, effectPending, lastChange>>

vars == <<method, values, turnoverRatio, daysToSell, benchmarkData,
          comparisonData, effectPending, lastChange, exports>>

---------------------------------------------------------------------------
(* ECMAScript Number values and the operators the component applies.       *)

RECURSIVE GCD(_, _)
GCD(a, b) == IF b = 0 THEN a ELSE GCD(b, a % b)

NaN == [k |-> "nan", s |-> 1, n |-> 0, d |-> 1, x |-> 0]

Inf(sign) == [k |-> "inf", s |-> sign, n |-> 0, d |-> 1, x |-> 0]

Zero(sign) == [k |-> "fin", s |-> sign, n |-> 0, d |-> 1, x |-> 0]

\* The finite value sign * (num/den) * H^ex, num > 0, brought into range:
\* above Number.MAX_VALUE (1.7976...e308) it is an Infinity, below the
\* smallest subnormal (4.9e-324) it is a zero of the same sign.
Norm(sign, num, den, ex) ==
    LET g == GCD(num, den)
        p == num \div g
        q == den \div g
        \* p/q > 1.7976
        over == p > q /\ (p >= 2 * q \/ (p - q) * 10000 > 7976 * q)
    IN  IF ex >= 2 \/ (ex = 1 /\ over) THEN Inf(sign)
        ELSE IF ex <= -2 THEN Zero(sign)
        ELSE [k |-> "fin", s |-> sign, n |-> p, d |-> q, x |-> ex]

\* An integer literal of the source (365, 2, 6, 180, 60, the defaults).
Int2Num(i) ==
    IF i = 0 THEN Zero(1)
    ELSE IF i < 0 THEN Norm(-1, -i, 1, 0) ELSE Norm(1, i, 1, 0)

\* A decimal literal of the source such as 4.5 = Dec(45, 10).
Dec(num, den) == Norm(1, num, den, 0)

IsNaN(a) == a.k = "nan"

IsFinite(a) == a.k = "fin"

IsZero(a) == a.k = "fin" /\ a.n = 0

Negate(a) == IF a.k = "nan" THEN a ELSE [a EXCEPT !.s = -a.s]

\* a + b
Add(a, b) ==
    IF a.k = "nan" \/ b.k = "nan" THEN NaN
    ELSE IF a.k = "inf" /\ b.k = "inf"
         THEN (IF a.s = b.s THEN a ELSE NaN)
    ELSE IF a.k = "inf" THEN a
    ELSE IF b.k = "inf" THEN b
    ELSE IF a.n = 0 /\ b.n = 0
         THEN (IF a.s = -1 /\ b.s = -1 THEN Zero(-1) ELSE Zero(1))
    ELSE IF a.n = 0 THEN b
    ELSE IF b.n = 0 THEN a
    ELSE IF a.x > b.x THEN a          \* b is below half an ulp of a
    ELSE IF b.x > a.x THEN b
    ELSE LET t == a.s * a.n * b.d + b.s * b.n * a.d
         IN  IF t = 0 THEN Zero(1)
             ELSE IF t < 0 THEN Norm(-1, -t, a.d * b.d, a.x)
             ELSE Norm(1, t, a.d * b.d, a.x)

\* a / b
Div(a, b) ==
    IF a.k = "nan" \/ b.k = "nan" THEN NaN
    ELSE IF a.k = "inf"
         THEN (IF b.k = "inf" THEN NaN ELSE Inf(a.s * b.s))
    ELSE IF b.k = "inf" THEN Zero(a.s * b.s)
    ELSE IF b.n = 0
         THEN (IF a.n = 0 THEN NaN ELSE Inf(a.s * b.s))
    ELSE IF a.n = 0 THEN Zero(a.s * b.s)
    ELSE Norm(a.s * b.s, a.n * b.d, a.d * b.n, a.x - b.x)

\* a > 0
IsPositive(a) == a.k # "nan" /\ a.s = 1 /\ ~IsZero(a)

\* a < 0
IsNegative(a) == a.k # "nan" /\ a.s = -1 /\ ~IsZero(a)

\* a < b and a > b: false when either is NaN.
Less(a, b) == IsPositive(Add(b, Negate(a)))

Greater(a, b) == Less(b, a)

\* ToBoolean(a), the test made by  a || 0
Truthy(a) == ~IsNaN(a) /\ ~IsZero(a)

---------------------------------------------------------------------------
(* Text typed into an <Input type="number"> and its conversion.  A text is *)
(* a sequence of one-character strings.                                    *)

Digits == {"0", "1", "2", "3", "4", "5", "6", "7", "8", "9"}

DigitVal(c) ==
    CASE c = "0" -> 0 [] c = "1" -> 1 [] c = "2" -> 2 [] c = "3" -> 3
      [] c = "4" -> 4 [] c = "5" -> 5 [] c = "6" -> 6 [] c = "7" -> 7
      [] c = "8" -> 8 [] c = "9" -> 9

\* The first index >= i of str that holds no digit (Len(str)+1 if none).
RECURSIVE SkipDigits(_, _)
SkipDigits(str, i) ==
    IF i <= Len(str) /\ str[i] \in Digits THEN SkipDigits(str, i + 1) ELSE i

\* The first index >= i of str that holds no white space.
RECURSIVE SkipWhite(_, _)
SkipWhite(str, i) ==
    IF i <= Len(str) /\ str[i] = " " THEN SkipWhite(str, i + 1) ELSE i

\* The decimal value of the digits str[i..j-1], continuing from acc.
RECURSIVE DigitsValue(_, _, _, _)
DigitsValue(str, i, j, acc) ==
    IF i >= j THEN acc
    ELSE DigitsValue(str, i + 1, j, acc * 10 + DigitVal(str[i]))

RECURSIVE Pow10(_)
Pow10(r) == IF r = 0 THEN 1 ELSE 10 * Pow10(r - 1)

\* sign * m * 10^e as a Number (m > 0); 10^308 is the magnitude unit H.
Scale(sign, m, e) ==
    IF e >= 0 THEN Norm(sign, m * Pow10(e % 308), 1, e \div 308)
    ELSE Norm(sign, m, Pow10((-e) % 308), -((-e) \div 308))

InfinityText == <<"I", "n", "f", "i", "n", "i", "t", "y">>

HasPrefixAt(str, i, pre) ==
    /\ i + Len(pre) - 1 <= Len(str)
    /\ SubSeq(str, i, i + Len(pre) - 1) = pre

\* The integer prefix alone, as parseInt(str, 10) reads it.
parseInt(str) ==
    LET i0 == SkipWhite(str, 1)
        signed == i0 <= Len(str) /\ str[i0] \in {"+", "-"}
        sign == IF signed /\ str[i0] = "-" THEN -1 ELSE 1
        i1 == IF signed THEN i0 + 1 ELSE i0
        i2 == SkipDigits(str, i1)
        m == DigitsValue(str, i1, i2, 0)
    IN  IF i2 = i1 THEN NaN
        ELSE IF m = 0 THEN Zero(sign)
        ELSE Scale(sign, m, 0)

\* The global parseFloat: the longest prefix of the trimmed text that is a
\* StrDecimalLiteral, NaN when there is none.
parseFloat(str) ==
    LET i0 == SkipWhite(str, 1)
        signed == i0 <= Len(str) /\ str[i0] \in {"+", "-"}
        sign == IF signed /\ str[i0] = "-" THEN -1 ELSE 1
        i1 == IF signed THEN i0 + 1 ELSE i0
        i2 == SkipDigits(str, i1)                  \* end of the integer digits
        hasDot == i2 <= Len(str) /\ str[i2] = "."
        i3 == IF hasDot THEN SkipDigits(str, i2 + 1) ELSE i2
        intLen == i2 - i1
        fracLen == IF hasDot THEN i3 - (i2 + 1) ELSE 0
        hasE == i3 <= Len(str) /\ str[i3] \in {"e", "E"}
        eSigned == hasE /\ i3 + 1 <= Len(str) /\ str[i3 + 1] \in {"+", "-"}
        j1 == IF eSigned THEN i3 + 2 ELSE i3 + 1   \* first exponent digit
        j2 == IF hasE THEN SkipDigits(str, j1) ELSE j1
        hasExp == hasE /\ j2 > j1
        expAbs == IF hasExp THEN DigitsValue(str, j1, j2, 0) ELSE 0
        exp == IF eSigned /\ str[i3 + 1] = "-" THEN -expAbs ELSE expAbs
        m == DigitsValue(str, i2 + 1, i3, DigitsValue(str, i1, i2, 0))
    IN  IF HasPrefixAt(str, i1, InfinityText) THEN Inf(sign)
        ELSE IF intLen = 0 /\ fracLen = 0 THEN NaN
        ELSE IF m = 0 THEN Zero(sign)
        ELSE Scale(sign, m, exp - fracLen)

\* HTML's "valid floating-point number": -?(digits(.digits)?|.digits)
\* ([eE][-+]?digits)? and nothing else.
ValidFloatingPointNumber(str) ==
    LET i1 == IF Len(str) >= 1 /\ str[1] = "-" THEN 2 ELSE 1
        i2 == SkipDigits(str, i1)
        hasDot == i2 <= Len(str) /\ str[i2] = "."
        i3 == IF hasDot THEN SkipDigits(str, i2 + 1) ELSE i2
        hasE == i3 <= Len(str) /\ str[i3] \in {"e", "E"}
        eSigned == hasE /\ i3 + 1 <= Len(str) /\ str[i3 + 1] \in {"+", "-"}
        j1 == IF eSigned THEN i3 + 2 ELSE i3 + 1
        j2 == IF hasE THEN SkipDigits(str, j1) ELSE i3
    IN  /\ IF hasDot THEN i3 > i2 + 1 ELSE i2 > i1
        /\ hasE => j2 > j1
        /\ j2 = Len(str) + 1

\* e.target.value of an <Input type="number"> in which `typed` was entered:
\* the value sanitization of the number state leaves a valid floating-point
\* number whose value is in range, and the empty string otherwise.
TargetValue(typed) ==
    IF ValidFloatingPointNumber(typed) /\ IsFinite(parseFloat(typed))
    THEN typed ELSE <<>>

---------------------------------------------------------------------------
(* The component.                                                          *)

Methods == {"cogs", "average"}

Fields == {"costOfGoodsSold", "beginningInventory", "endingInventory",
           "averageInventory"}

\* The inputs the active tab renders: Tabs mounts the content of the
\* selected tab only.
VisibleFields(m) ==
    IF m = "cogs"
    THEN {"costOfGoodsSold", "beginningInventory", "endingInventory"}
    ELSE {"costOfGoodsSold", "averageInventory"}

\* Texts a user types into a field: empty, a number followed by a word,
\* minus zero, integers, a decimal with an exponent, a negative number, and
\* a number near the top of the double range.
TypedTexts ==
    { <<>>,
      <<"1", "2", "a", "b", "c">>,
      <<"-", "0">>,
      <<"1", "2">>,
      <<"3", "6">>,
      <<"7", ".", "3", "e", "1">>,
      <<"-", "1", "2">>,
      <<"1", "e", "3", "0", "8">> }

NoChange == [name |-> "none", typed |-> <<>>]

InitialValuesAverageOfBeginning ==
    [costOfGoodsSold    |-> Int2Num(1000000),
     beginningInventory |-> Int2Num(250000),
     endingInventory    |-> Int2Num(150000),
     averageInventory   |-> Int2Num(250000)]

InitialValues ==
    [costOfGoodsSold    |-> Int2Num(1000000),
     beginningInventory |-> Int2Num(250000),
     endingInventory    |-> Int2Num(150000),
     averageInventory   |-> Int2Num(200000)]

\* inventoryValue of calculateResults.
inventoryValueNotHalved(m, v) ==
    IF m = "cogs"
    THEN Add(v.beginningInventory, v.endingInventory)
    ELSE v.averageInventory

inventoryValue(m, v) ==
    IF m = "cogs"
    THEN Div(Add(v.beginningInventory, v.endingInventory), Int2Num(2))
    ELSE v.averageInventory

BenchmarkEntries ==
    << [name |-> "Apparel",        value |-> Dec(45, 10)],
       [name |-> "Electronics",    value |-> Dec(52, 10)],
       [name |-> "Grocery",        value |-> Dec(128, 10)],
       [name |-> "Furniture",      value |-> Dec(23, 10)],
       [name |-> "General Retail", value |-> Dec(38, 10)] >>

\* What calculateResults hands to the four state setters.
calculateResultsDaysInverted(m, v) ==
    LET ratio == Div(v.costOfGoodsSold, inventoryValue(m, v))
    IN  [turnoverRatio  |-> ratio,
         daysToSell     |-> Div(ratio, Int2Num(365)),
         benchmarkData  |-> BenchmarkEntries,
         comparisonData |->
             << [name |-> "Your Business", value |-> ratio],
                [name |-> "Industry Avg.", value |-> Dec(38, 10)] >>]

calculateResults(m, v) ==
    LET ratio == Div(v.costOfGoodsSold, inventoryValue(m, v))
    IN  [turnoverRatio  |-> ratio,
         daysToSell     |-> Div(Int2Num(365), ratio),
         benchmarkData  |-> BenchmarkEntries,
         comparisonData |->
             << [name |-> "Your Business", value |-> ratio],
                [name |-> "Industry Avg.", value |-> Dec(38, 10)] >>]

\* The results state as a record.
Results ==
    [turnoverRatio  |-> turnoverRatio,
     daysToSell     |-> daysToSell,
     benchmarkData  |-> benchmarkData,
     comparisonData |-> comparisonData]

SetResults(r) ==
    /\ turnoverRatio' = r.turnoverRatio
    /\ daysToSell' = r.daysToSell
    /\ benchmarkData' = r.benchmarkData
    /\ comparisonData' = r.comparisonData

\* React runs an effect that is still pending before it renders the next
\* update, so a handler's update is applied to the results that effect set.
FlushPendingEffect ==
    SetResults(IF effectPending THEN calculateResults(method, values)
               ELSE Results)

\* Number.prototype.toFixed(digits) as rendered in the results panel: the
\* text "NaN", "Infinity" or "-Infinity", a decimal numeral (its sign and
\* the value times 10^digits, rounded half up), or, from 1e21 on, the
\* exponential numeral of ToString.
toFixed(a, digits) ==
    IF a.k = "nan" THEN [kind |-> "NaN", negative |-> FALSE, scaled |-> 0]
    ELSE IF a.k = "inf"
         THEN [kind |-> "Infinity", negative |-> a.s = -1, scaled |-> 0]
    ELSE IF a.x >= 1
         THEN [kind |-> "exponential", negative |-> a.s = -1, scaled |-> 0]
    ELSE IF a.x <= -1 \/ a.n = 0
         THEN [kind |-> "decimal", negative |-> a.s = -1, scaled |-> 0]
    ELSE [kind |-> "decimal", negative |-> a.s = -1,
          scaled |-> (2 * a.n * Pow10(digits) + a.d) \div (2 * a.d)]

\* The sentence under the turnover ratio.
turnoverCategoryInclusive(ratio) ==
    IF ~Greater(ratio, Int2Num(2)) /\ ~IsNaN(ratio) THEN "low"
    ELSE IF ~Less(ratio, Int2Num(6)) /\ ~IsNaN(ratio) THEN "high"
    ELSE "average"

turnoverCategory(ratio) ==
    IF Less(ratio, Int2Num(2)) THEN "low"
    ELSE IF Greater(ratio, Int2Num(6)) THEN "high"
    ELSE "average"

\* The sentence under the days sales of inventory.
daysCategoryInclusive(days) ==
    IF ~Less(days, Int2Num(180)) /\ ~IsNaN(days) THEN "slow-moving"
    ELSE IF ~Greater(days, Int2Num(60)) /\ ~IsNaN(days) THEN "fast-moving"
    ELSE "average pace"

daysCategory(days) ==
    IF Greater(days, Int2Num(180)) THEN "slow-moving"
    ELSE IF Less(days, Int2Num(60)) THEN "fast-moving"
    ELSE "average pace"

\* What the results panel shows in the current state.
Rendered ==
    [ratioText    |-> toFixed(turnoverRatio, 2),
     ratioComment |-> turnoverCategory(turnoverRatio),
     daysText     |-> toFixed(daysToSell, 0),
     daysComment  |-> daysCategory(daysToSell)]

Init ==
    /\ method = "cogs"
    /\ values = InitialValues
    /\ turnoverRatio = Int2Num(0)
    /\ daysToSell = Int2Num(0)
    /\ benchmarkData = <<>>
    /\ comparisonData = <<>>
    /\ effectPending = TRUE          \* the effect of the mount
    /\ lastChange = NoChange
    /\ exports = <<>>

\* useEffect(() => { calculateResults(); }, [values, method])
useEffectWithoutCalculation ==
    /\ effectPending
    /\ effectPending' = FALSE
    /\ UNCHANGED <<method, values, turnoverRatio, daysToSell, benchmarkData,
                   comparisonData, lastChange, exports>>

useEffect ==
    /\ effectPending
    /\ SetResults(calculateResults(method, values))
    /\ effectPending' = FALSE
    /\ UNCHANGED <<method, values, lastChange, exports>>

\* parseFloat(value) || 0
CoerceNoDefault(value) == parseFloat(value)

Coerce(value) ==
    LET parsed == parseFloat(value)
    IN  IF Truthy(parsed) THEN parsed ELSE Int2Num(0)

\* The value handleInputChange stores for each typed text.
StoredValue == [typed \in TypedTexts |-> Coerce(TargetValue(typed))]

\* handleInputChange for the change event of the input `name` after `typed`
\* was entered in it.  setValues gets a new object, so the effect is due.
handleInputChangeFromDefaults(name, typed) ==
    /\ values' = [InitialValues EXCEPT ![name] = StoredValue[typed]]
    /\ FlushPendingEffect
    /\ effectPending' = TRUE
    /\ lastChange' = [name |-> name, typed |-> typed]
    /\ UNCHANGED <<method, exports>>

handleInputChangeUnlessExporting(name, typed) ==
    /\ \A i \in 1..Len(exports) : exports[i].pc # "rasterizing"
    /\ values' = [values EXCEPT ![name] = StoredValue[typed]]
    /\ FlushPendingEffect
    /\ effectPending' = TRUE
    /\ lastChange' = [name |-> name, typed |-> typed]
    /\ UNCHANGED <<method, exports>>

handleInputChange(name, typed) ==
    /\ values' = [values EXCEPT ![name] = StoredValue[typed]]
    /\ FlushPendingEffect
    /\ effectPending' = TRUE
    /\ lastChange' = [name |-> name, typed |-> typed]
    /\ UNCHANGED <<method, exports>>

\* handleMethodChange, called by Tabs when another tab is selected.
handleMethodChangeResetting(value) ==
    /\ value # method
    /\ method' = value
    /\ values' = InitialValues
    /\ FlushPendingEffect
    /\ effectPending' = TRUE
    /\ UNCHANGED <<lastChange, exports>>

handleMethodChange(value) ==
    /\ value # method
    /\ method' = value
    /\ FlushPendingEffect
    /\ effectPending' = TRUE
    /\ UNCHANGED <<values, lastChange, exports>>

Next ==
    \/ useEffect
    \/ \E name \in VisibleFields(method), typed \in TypedTexts :
           handleInputChange(name, typed)
    \/ \E value \in Methods : handleMethodChange(value)

Spec == Init /\ [][Next]_vars

TypeOK ==
    /\ method \in Methods
    /\ effectPending \in BOOLEAN
    /\ DOMAIN values = Fields

---------------------------------------------------------------------------
(* The export.  exports holds one record per generatePDF call: where the   *)
(* call stands (awaiting html2canvas, done, failed), the titles of the     *)
(* toasts it has issued, and whether pdf.save has run.  resultRef.current  *)
(* is the results panel, rendered unconditionally, so the guard of line 96 *)
(* never returns.                                                          *)

\* The number of generatePDF calls a behaviour makes.
MaxExports == 2

Preparing == "Preparing your PDF..."

Downloaded == "PDF Downloaded Successfully"

DownloadFailed == "Download Failed"

\* A click on the download button: the first toast, then the call of
\* html2canvas, on whose promise the function suspends.
generatePDF ==
    /\ Len(exports) < MaxExports
    /\ exports' = Append(exports, [pc |-> "rasterizing",
                                   notices |-> <<Preparing>>,
                                   saved |-> FALSE])
    /\ UNCHANGED calcVars

\* The catch block: console.error and the destructive toast.
Caught(i) ==
    [exports EXCEPT ![i].pc = "failed",
                    ![i].notices = Append(@, DownloadFailed)]

\* html2canvas rejects: the await throws into the catch block.
rasterizationFails(i) ==
    /\ exports[i].pc = "rasterizing"
    /\ exports' = Caught(i)
    /\ UNCHANGED calcVars

compositionFailsAfterSave(i) ==
    /\ exports[i].pc = "rasterizing"
    /\ exports' = [Caught(i) EXCEPT ![i].saved = TRUE]
    /\ UNCHANGED calcVars

\* html2canvas resolves and a statement of lines 111-146 (toDataURL, the
\* jsPDF calls, addImage) throws, before pdf.save.
compositionFails(i) ==
    /\ exports[i].pc = "rasterizing"
    /\ exports' = Caught(i)
    /\ UNCHANGED calcVars

\* html2canvas resolves and lines 111-153 run to the end: pdf.save, then
\* the success toast.
exportSucceeds(i) ==
    /\ exports[i].pc = "rasterizing"
    /\ exports' = [exports EXCEPT ![i].pc = "done",
                                  ![i].saved = TRUE,
                                  ![i].notices = Append(@, Downloaded)]
    /\ UNCHANGED calcVars

\* The continuation of the awaited html2canvas promise of call i.
Settles(i) ==
    /\ i <= Len(exports)
    /\ (rasterizationFails(i) \/ compositionFails(i) \/ exportSucceeds(i))

\* The texts typed while exports are under way.
FewTexts == { <<>>, <<"1", "2">> }

NextExport ==
    \/ useEffect
    \/ \E name \in VisibleFields(method), typed \in FewTexts :
           handleInputChange(name, typed)
    \/ \E value \in Methods : handleMethodChange(value)
    \/ generatePDF
    \/ \E i \in 1..Len(exports) : rasterizationFails(i)
    \/ \E i \in 1..Len(exports) : compositionFails(i)
    \/ \E i \in 1..Len(exports) : exportSucceeds(i)

ExportSpec == Init /\ [][NextExport]_vars

\* React runs a scheduled effect, and the event loop runs the continuation
\* of a promise once html2canvas has settled it.  The first conjunct is
\* WF_vars(useEffect) with ENABLED <<useEffect>>_vars written out: the
\* effect can run exactly when it is pending.
FairExportSpec ==
    /\ ExportSpec
    /\ ([]<>(~effectPending) \/ []<><<useEffect>>_vars)
    /\ \A i \in 1..MaxExports : WF_vars(Settles(i))

---------------------------------------------------------------------------
(* Notions the properties are stated in.                                   *)

\* The effective average inventory of the calculator's contract.
EffectiveAverageInventory ==
    IF method = "cogs"
    THEN Div(Add(values.beginningInventory, values.endingInventory),
             Int2Num(2))
    ELSE values.averageInventory

AllNonNegative == \A f \in Fields : ~IsNaN(values[f]) /\ ~IsNegative(values[f])

\* Every input is far from the limits of the double range.
OrdinaryMagnitudes == \A f \in Fields : IsFinite(values[f]) /\ values[f].x = 0

\* The results are those of a calculation on the current inputs.
Calculated == ~effectPending

---------------------------------------------------------------------------
\* C1: after a calculation on non-negative inputs whose effective average
\* inventory is positive, in either mode, turnoverRatio is costOfGoodsSold
\* divided by the effective average inventory and daysToSell is 365 divided
\* by turnoverRatio.
C1_RatioAndDaysFollowFormulas ==
    (Calculated /\ AllNonNegative /\ IsPositive(EffectiveAverageInventory))
    => /\ turnoverRatio = Div(values.costOfGoodsSold, EffectiveAverageInventory)
       /\ daysToSell = Div(Int2Num(365), turnoverRatio)

C1_Witness ==
    /\ Calculated /\ AllNonNegative
    /\ method = "cogs"
    /\ values.beginningInventory # values.endingInventory
    /\ IsPositive(EffectiveAverageInventory)
    /\ lastChange # NoChange
    /\ turnoverRatio = Int2Num(2)
    /\ daysToSell = Dec(365, 2)

\* C2: whenever the effective average inventory is 0, the turnover ratio and
\* the DSI the panel shows are decimal numerals, never "NaN" or "Infinity".
C2_ZeroInventoryShowsNoNaNOrInfinity ==
    (Calculated /\ IsZero(EffectiveAverageInventory))
    => /\ Rendered.ratioText.kind = "decimal"
       /\ Rendered.daysText.kind = "decimal"

C4_ModesAgreeOnEqualInventories ==
    (Calculated /\ values.beginningInventory = values.endingInventory
                /\ values.endingInventory = values.averageInventory)
    => LET other == calculateResults(IF method = "cogs" THEN "average"
                                     ELSE "cogs", values)
       IN  /\ turnoverRatio = other.turnoverRatio
           /\ daysToSell = other.daysToSell

\* a < c and a > c for an integer c >= 1, by cross-multiplication.
BelowInt(a, c) ==
    /\ a.k # "nan"
    /\ IF a.k = "inf" THEN a.s = -1
       ELSE IF a.n = 0 THEN TRUE
       ELSE IF a.x >= 1 THEN a.s = -1
       ELSE IF a.x <= -1 THEN TRUE
       ELSE a.s * a.n < c * a.d

AboveInt(a, c) ==
    /\ a.k # "nan"
    /\ IF a.k = "inf" THEN a.s = 1
       ELSE IF a.n = 0 THEN FALSE
       ELSE IF a.x >= 1 THEN a.s = 1
       ELSE IF a.x <= -1 THEN FALSE
       ELSE a.s * a.n > c * a.d

\* C5: the turnover category shown is "low" exactly when the ratio is below
\* 2, "high" exactly when it is above 6, and "average" otherwise, so that a
\* ratio of exactly 2 or exactly 6 is "average".
C5_TurnoverCategoryBoundaries ==
    LET shown == Rendered.ratioComment
    IN  /\ shown = "low" <=> BelowInt(turnoverRatio, 2)
        /\ shown = "high" <=> AboveInt(turnoverRatio, 6)
        /\ shown = "average" <=> (~BelowInt(turnoverRatio, 2)
                                  /\ ~AboveInt(turnoverRatio, 6))

C5_Witness ==
    /\ Calculated
    /\ turnoverRatio = Int2Num(6)
    /\ Rendered.ratioComment = "average"

\* C6: the DSI category shown is "slow-moving" exactly when the DSI is above
\* 180, "fast-moving" exactly when it is below 60, and "average pace"
\* otherwise, so that a DSI of exactly 180 or exactly 60 is "average pace".
C6_DaysCategoryBoundaries ==
    LET shown == Rendered.daysComment
    IN  /\ shown = "slow-moving" <=> AboveInt(daysToSell, 180)
        /\ shown = "fast-moving" <=> BelowInt(daysToSell, 60)
        /\ shown = "average pace" <=> (~AboveInt(daysToSell, 180)
                                       /\ ~BelowInt(daysToSell, 60))

C6_Witness ==
    /\ Calculated
    /\ daysToSell = Int2Num(180)
    /\ Rendered.daysComment = "average pace"

\* The number each numeric text of TypedTexts denotes; the other texts of
\* TypedTexts are not numeric.
DenotedNumber ==
    (<<"-", "0">> :> Int2Num(0))
    @@ (<<"1", "2">> :> Int2Num(12))
    @@ (<<"3", "6">> :> Int2Num(36))
    @@ (<<"7", ".", "3", "e", "1">> :> Int2Num(73))
    @@ (<<"-", "1", "2">> :> Int2Num(-12))
    @@ (<<"1", "e", "3", "0", "8">> :>
            [k |-> "fin", s |-> 1, n |-> 1, d |-> 1, x |-> 1])

NumericTexts == DOMAIN DenotedNumber

C8_FieldsNonNegative == AllNonNegative

\* C8 as amended: in every reachable state the four fields are finite
\* numbers, and a field becomes negative only by an edit of that field whose
\* text denotes a negative number.
C8_FieldsFiniteNegativeOnlyIfTyped ==
    /\ [](\A f \in Fields : IsFinite(values[f]))
    /\ [][\A f \in Fields :
            (IsNegative(values'[f]) /\ ~IsNegative(values[f]))
            => /\ lastChange'.name = f
               /\ lastChange'.typed \in NumericTexts
               /\ IsNegative(DenotedNumber[lastChange'.typed])]_vars

C8_Witness ==
    /\ lastChange.name = "averageInventory"
    /\ IsNegative(values.averageInventory)
    /\ ~IsNegative(values.beginningInventory)
    /\ Calculated

\* The numbers a field can hold after an edit.
SampleNumbers == {StoredValue[t] : t \in TypedTexts}

\* C9: a mode switch leaves the four fields unchanged; the result calculated
\* in COGS mode does not depend on averageInventory and the result
\* calculated in direct-average mode does not depend on beginningInventory
\* or endingInventory.
C9_InactiveFieldsRetainedAndIgnored ==
    /\ [][method' # method => values' = values]_vars
    /\ [](Calculated =>
            \A w1, w2 \in SampleNumbers :
                LET other ==
                        IF method = "cogs"
                        THEN [values EXCEPT !.averageInventory = w1]
                        ELSE [values EXCEPT !.beginningInventory = w1,
                                            !.endingInventory = w2]
                    r == calculateResults(method, other)
                IN  /\ turnoverRatio = r.turnoverRatio
                    /\ daysToSell = r.daysToSell)

C9_Witness ==
    /\ Calculated
    /\ method = "average"
    /\ values.beginningInventory = Int2Num(12)
    /\ values.endingInventory = Int2Num(-12)
    /\ values.averageInventory = Int2Num(36)
    /\ turnoverRatio = Dec(73, 36)

\* C10: in every state rendered, the initial one included, the stored
\* turnoverRatio and daysToSell are the calculation applied to the current
\* method and values.
C10_ResultsAlwaysCurrent ==
    LET r == calculateResults(method, values)
    IN  turnoverRatio = r.turnoverRatio /\ daysToSell = r.daysToSell

\* C11: every field edit and every mode switch schedules the effect, a
\* scheduled effect eventually runs, and whenever no effect is pending (so
\* in particular once the user events have stopped) the surfaced ratio,
\* DSI and datasets are the calculation on the current mode and inputs;
\* running the calculation again in such a state would therefore set what
\* is already surfaced.
C11_EventuallyRecalculated ==
    /\ [][(lastChange' # lastChange \/ values' # values \/ method' # method)
            => effectPending']_vars
    /\ effectPending ~> Calculated
    /\ [](Calculated => Results = calculateResults(method, values))

C11_Witness ==
    /\ Calculated
    /\ method = "average"
    /\ lastChange = [name |-> "averageInventory", typed |-> <<"1", "2">>]
    /\ values.averageInventory = Int2Num(12)
    /\ Results = calculateResults("average", values)

\* C12: in every reachable state the benchmark dataset is the five entries
\* Apparel 4.5, Electronics 5.2, Grocery 12.8, Furniture 2.3 and General
\* Retail 3.8.
C12_BenchmarkDataConstant ==
    benchmarkData =
        << [name |-> "Apparel",        value |-> Dec(45, 10)],
           [name |-> "Electronics",    value |-> Dec(52, 10)],
           [name |-> "Grocery",        value |-> Dec(128, 10)],
           [name |-> "Furniture",      value |-> Dec(23, 10)],
           [name |-> "General Retail", value |-> Dec(38, 10)] >>

\* C13: in every reachable state the comparison dataset has two entries,
\* "Your Business" with the stored turnoverRatio and "Industry Avg." with
\* 3.8.
C13_ComparisonDataPairsRatioWithAverage ==
    /\ Len(comparisonData) = 2
    /\ comparisonData[1] = [name |-> "Your Business", value |-> turnoverRatio]
    /\ comparisonData[2] = [name |-> "Industry Avg.", value |-> Dec(38, 10)]

\* C14: the default inputs are costOfGoodsSold 1,000,000, beginning 250,000,
\* ending 150,000 and average 200,000; the effective average in COGS mode
\* is 200,000, and a calculation on them, in either mode, gives ratio 5 and
\* DSI 73, shown as "5.00" and "73".
C14_DefaultScenario ==
    /\ InitialValues.costOfGoodsSold = Int2Num(1000000)
    /\ (Calculated /\ values = InitialValues)
       => /\ EffectiveAverageInventory = Int2Num(200000)
          /\ turnoverRatio = Int2Num(5)
          /\ daysToSell = Int2Num(73)
          /\ Rendered.ratioText =
                 [kind |-> "decimal", negative |-> FALSE, scaled |-> 500]
          /\ Rendered.daysText =
                 [kind |-> "decimal", negative |-> FALSE, scaled |-> 73]

C14_Witness ==
    /\ Calculated
    /\ values = InitialValues
    /\ method = "average"
    /\ Rendered.ratioText.scaled = 500
    /\ Rendered.daysText.scaled = 73

\* C17: a field edit changes only the edited field: in every step that
\* changes values, the fields other than the one named by the change event
\* and the mode keep their values.
C17_EditChangesOnlyItsField ==
    [][values' # values
       => /\ \A f \in Fields \ {lastChange'.name} : values'[f] = values[f]
          /\ method' = method]_vars

C17_Witness ==
    /\ lastChange.name = "endingInventory"
    /\ values.costOfGoodsSold = Int2Num(73)
    /\ values.beginningInventory = Int2Num(36)
    /\ values.endingInventory = Int2Num(12)
    /\ values.averageInventory = InitialValues.averageInventory

\* C15: an export attempt that fails, in rasterization or in composition,
\* has issued exactly one failure notice and no success notice and has
\* saved no document; the failing step starts no further attempt and leaves
\* the mode, the four fields and the results as they were.
C15_FailedExportReportedOnce ==
    /\ [](\A i \in 1..Len(exports) :
              exports[i].pc = "failed"
              => /\ exports[i].notices = <<Preparing, DownloadFailed>>
                 /\ ~exports[i].saved)
    /\ [][\A i \in 1..Len(exports) :
              (exports[i].pc = "rasterizing" /\ exports'[i].pc = "failed")
              => /\ Len(exports') = Len(exports)
                 /\ \A j \in 1..Len(exports) :
                        j # i => exports'[j] = exports[j]
                 /\ UNCHANGED calcVars]_vars

C15_Witness ==
    /\ Len(exports) = 2
    /\ exports[1].pc = "failed"
    /\ exports[2].pc = "done"
    /\ lastChange # NoChange

\* An export attempt that has reached its outcome.
Settled(i) == i <= Len(exports) /\ exports[i].pc \in {"done", "failed"}

\* C16: exports do not interact with edits.  Every step that changes the
\* mode, the fields or the results is a step of the calculator alone, so
\* their final values are those of the same edits without an export; every
\* edit of a visible field can be made whatever the exports are doing (shown
\* in the states where no effect is pending); and every export attempt
\* eventually reaches one outcome, success with the success notice or
\* failure with the failure notice, and then stays as it is.
C16_ExportIndependentOfEdits ==
    /\ [][Next]_calcVars
    /\ [](Calculated
          => \A name \in VisibleFields(method), typed \in FewTexts :
                 ENABLED handleInputChange(name, typed))
    /\ \A i \in 1..MaxExports : (i <= Len(exports)) ~> Settled(i)
    /\ [](\A i \in 1..Len(exports) :
              /\ exports[i].pc = "done"
                 => exports[i].notices = <<Preparing, Downloaded>>
              /\ exports[i].pc = "failed"
                 => exports[i].notices = <<Preparing, DownloadFailed>>)
    /\ [][\A i \in 1..Len(exports) : Settled(i) => exports'[i] = exports[i]]_vars

C16_Witness ==
    /\ Len(exports) = 1
    /\ exports[1].pc = "done"
    /\ lastChange.name = "costOfGoodsSold"
    /\ method = "average"
    /\ Calculated
    /\ Results = calculateResults(method, values)

=============================================================================
